---- MODULE Spec2Model ----
(***************************************************************************)
(* Model of the `aws-connect list-instances` command                       *)
(* (src/src/commands/aws-connect/list-instances.ts).                       *)
(*                                                                         *)
(* One invocation of the command is one behaviour.  The steps are the      *)
(* stretches of ListInstances.run / ListInstances.listInstances between    *)
(* two awaits: flag parsing, the body of run() up to the first await of    *)
(* listInstances, and the settlement (resolve or reject) of each of the    *)
(* two awaited collaborator calls.                                         *)
(*                                                                         *)
(* JavaScript objects are functions from the keys that hold a defined      *)
(* value to that value; reading a key outside the domain yields undefined. *)
(***************************************************************************)
EXTENDS Integers, Sequences, FiniteSets, TLC

VARIABLES argv,      \* the flags given on the command line
          pc,        \* position of the invocation
          flags,     \* result of this.parse(ListInstances)
          config,    \* the TAwsAccessFlags record built by run()
          calls,     \* collaborator calls made so far, in order
          sent,      \* commands handed to connectClient.send, in order
          response,  \* <<r>> once connectClient.send resolved with r
          caught,    \* <<e>> once the catch block received e
          output,    \* what the command wrote, in order
          exitCode   \* exit status of the process (meaningful at pc = "done")

vars == <<argv, pc, flags, config, calls, sent, response, caught, output, exitCode>>

-----------------------------------------------------------------------------
(* Bounds and input domains *)

MaxInstances == 2

InstanceSummaries == {"i-1", "i-2"}

ProfileValues == {"", "dev"}
RegionValues == {"us-east-1"}
AccessKeyIdValues == {"", "A"}
SecretAccessKeyValues == {"", "B"}
SecretSessionTokenValues == {"", "C"}

FlagValues ==
  [profile |-> ProfileValues,
   region |-> RegionValues,
   accessKeyId |-> AccessKeyIdValues,
   secretAccessKey |-> SecretAccessKeyValues,
   secretSessionToken |-> SecretSessionTokenValues]

FlagNames == DOMAIN FlagValues

\* every command line: any subset of the flags, each with one of its values
ArgvSet ==
  UNION {[S -> UNION {FlagValues[k] : k \in FlagNames}] : S \in SUBSET FlagNames}

Argvs == {a \in ArgvSet : \A k \in DOMAIN a : a[k] \in FlagValues[k]}

\* values a collaborator may throw: Error objects and other values
Thrown ==
  {[isError |-> TRUE, name |-> "UnrecognizedClientException",
    message |-> "The security token included in the request is invalid."],
   [isError |-> TRUE, name |-> "Error", message |-> "timeout"],
   [isError |-> TRUE, name |-> "TimeoutError", message |-> ""],
   [isError |-> FALSE, name |-> "UnrecognizedClientException", message |-> "denied"],
   [isError |-> FALSE, name |-> "", message |-> "timeout"]}

RECURSIVE SeqsUpTo(_)
SeqsUpTo(n) ==
  IF n = 0 THEN {<<>>}
  ELSE LET shorter == SeqsUpTo(n - 1)
       IN shorter \cup {Append(s, i) : s \in {t \in shorter : Len(t) = n - 1},
                                        i \in InstanceSummaries}

\* responses of ListInstances: InstanceSummaryList is optional
Responses ==
  {[metadata |-> "200"]} \cup
  {[metadata |-> "200", InstanceSummaryList |-> l] : l \in SeqsUpTo(MaxInstances)}

-----------------------------------------------------------------------------
(* JavaScript object helpers *)

NoObject == <<>>

Has(o, k) == k \in DOMAIN o

Truthy(o, k) == Has(o, k) /\ o[k] # ""

-----------------------------------------------------------------------------
(* Flag declarations and parsing *)

DefaultRegion == "ap-southeast-2"

exclusive ==
  [profile |-> {"accessKeyId", "secretAccessKey"},
   region |-> {},
   accessKeyId |-> {"profile"},
   secretAccessKey |-> {},
   secretSessionToken |-> {}]

dependsOn_TokenFree ==
  [profile |-> {},
   region |-> {},
   accessKeyId |-> {},
   secretAccessKey |-> {"accessKeyId"},
   secretSessionToken |-> {}]

dependsOn ==
  [profile |-> {},
   region |-> {},
   accessKeyId |-> {},
   secretAccessKey |-> {"accessKeyId"},
   secretSessionToken |-> {"accessKeyId"}]

\* A flag that is given fails validation when a flag it excludes is given
\* too, or when a flag it depends on is not given.  "Given" is presence on
\* the command line: an empty value counts, a default does not.
ParseFails(a) ==
  \E k \in DOMAIN a :
    \/ \E x \in exclusive[k] : Has(a, x)
    \/ \E d \in dependsOn[k] : ~Has(a, d)

\* the parsed flags: what was given, plus the default of region
ParsedFlags(a) ==
  [k \in DOMAIN a \cup {"region"} |-> IF Has(a, k) THEN a[k] ELSE DefaultRegion]

-----------------------------------------------------------------------------
(* run(): building and validating the config *)

AuthMethod_Presence(f) == IF Has(f, "profile") THEN "sso" ELSE "accessKey"

AuthMethod(f) == IF Truthy(f, "profile") THEN "sso" ELSE "accessKey"

\* which key of flags each key of config is read from
ConfigSource ==
  [accessKeyId |-> "accessKeyId",
   profile |-> "profile",
   region |-> "region",
   secretAccessKey |-> "secretAccessKey",
   secretSessionToken |-> "secretToken"]

BuildConfig(f) ==
  LET defined == {k \in DOMAIN ConfigSource : Has(f, ConfigSource[k])}
  IN [k \in defined \cup {"authMethod"} |->
        IF k = "authMethod" THEN AuthMethod(f) ELSE f[ConfigSource[k]]]

IsAuthValid_AnyKey(c) ==
  \/ Truthy(c, "profile")
  \/ Truthy(c, "accessKeyId")
  \/ Truthy(c, "secretAccessKey")
  \/ Truthy(c, "secretSessionToken")

IsAuthValid(c) ==
  \/ Truthy(c, "profile")
  \/ /\ Truthy(c, "accessKeyId")
     /\ Truthy(c, "secretAccessKey")
     /\ Truthy(c, "secretSessionToken")

-----------------------------------------------------------------------------
(* Output and termination *)

AuthRequiredMsg ==
  "Auth is required: either AWS profile or access key credentials (accessKeyId, secretAccessKey and secretSessionToken) must be provided."
NoInstancesMsg == "No Amazon Connect instances found."
InstancesLabel == "Instances:"
AuthErrorMsg == "Authentication Error: Please check your AWS credentials and region."
ListErrorPrefix == "Error listing Amazon Connect instances: "
FlagErrorMsg == "flag validation failed"

Line(chan, text, data) == [chan |-> chan, text |-> text, data |-> data]

\* this.log(text)
Log(text) == Line("stdout", text, <<>>)

\* console.log(label, value)
ConsoleLog(label, value) == Line("stdout", label, value)

\* Options of this.error: a sequence of <<key, value>> pairs.
NoOptions == <<>>
ExitOption(n) == << <<"exit", n>> >>

\* Command.error(message, options) throws a CLIError: the message goes to
\* the error channel and the process exits with options.exit when it is
\* given, and with the framework's default, 2, when it is not.
ErrorExit(options) ==
  IF \E i \in 1..Len(options) : options[i][1] = "exit"
  THEN options[CHOOSE i \in 1..Len(options) : options[i][1] = "exit"][2]
  ELSE 2

ErrorLine(message) == Line("stderr", message, <<>>)

-----------------------------------------------------------------------------
(* listInstances(): rendering a response, handling a thrown value *)

ListInstancesCommand_Paged(input) ==
  [name |-> "ListInstancesCommand", input |-> <<"NextToken">>]

ListInstancesCommand(input) == [name |-> "ListInstancesCommand", input |-> input]

EmptyInput == <<>>

SummaryList(r) == IF Has(r, "InstanceSummaryList") THEN r.InstanceSummaryList ELSE <<>>

IsEmptyResult_LengthOnly(r) ==
  Has(r, "InstanceSummaryList") /\ Len(r.InstanceSummaryList) = 0

IsEmptyResult(r) ==
  ~Has(r, "InstanceSummaryList") \/ Len(r.InstanceSummaryList) = 0

InstancesOutput_Tail(r) == ConsoleLog(InstancesLabel, Tail(SummaryList(r)))

InstancesOutput(r) == ConsoleLog(InstancesLabel, SummaryList(r))

Render(r) ==
  IF IsEmptyResult(r) THEN <<Log(NoInstancesMsg)>> ELSE <<InstancesOutput(r)>>

\* the catch block: [reported |-> whether this.error was called,
\*                   message, options |-> its arguments]
Catch_AnyValue(e) ==
  IF e.name = "UnrecognizedClientException"
  THEN [reported |-> TRUE, message |-> AuthErrorMsg, options |-> NoOptions]
  ELSE [reported |-> TRUE, message |-> ListErrorPrefix \o e.message,
        options |-> NoOptions]

Catch(e) ==
  IF e.isError
  THEN IF e.name = "UnrecognizedClientException"
       THEN [reported |-> TRUE, message |-> AuthErrorMsg, options |-> NoOptions]
       ELSE [reported |-> TRUE, message |-> ListErrorPrefix \o e.message,
             options |-> NoOptions]
  ELSE [reported |-> FALSE, message |-> "", options |-> NoOptions]

-----------------------------------------------------------------------------
(* The invocation *)

Init ==
  /\ argv \in Argvs
  /\ pc = "parse"
  /\ flags = NoObject
  /\ config = NoObject
  /\ calls = <<>>
  /\ sent = <<>>
  /\ response = <<>>
  /\ caught = <<>>
  /\ output = <<>>
  /\ exitCode = 0

\* await this.parse(ListInstances)
Parse ==
  /\ pc = "parse"
  /\ IF ParseFails(argv)
     THEN /\ pc' = "done"
          /\ output' = Append(output, ErrorLine(FlagErrorMsg))
          /\ exitCode' = 2
          /\ UNCHANGED flags
     ELSE /\ pc' = "run"
          /\ flags' = ParsedFlags(argv)
          /\ UNCHANGED <<output, exitCode>>
  /\ UNCHANGED <<argv, config, calls, sent, response, caught>>

\* run() after the parse: build the config, validate it, enter
\* listInstances up to `await awsService.getConnectClient()`
\* (AwsService.getInstance is a synchronous factory call outside the try
\* block; it is recorded in calls and taken to return a service object)
Run ==
  /\ pc = "run"
  /\ config' = BuildConfig(flags)
  /\ IF ~IsAuthValid(config')
     THEN /\ pc' = "done"
          /\ output' = Append(output, ErrorLine(AuthRequiredMsg))
          /\ exitCode' = ErrorExit(ExitOption(1))
          /\ UNCHANGED calls
     ELSE /\ pc' = "awaitClient"
          /\ calls' = calls \o <<"getInstance", "getConnectClient">>
          /\ UNCHANGED <<output, exitCode>>
  /\ UNCHANGED <<argv, flags, sent, response, caught>>

\* the catch block of listInstances receives e
Handle(e) ==
  LET c == Catch(e)
  IN /\ caught' = Append(caught, e)
     /\ pc' = "done"
     /\ IF c.reported
        THEN /\ output' = Append(output, ErrorLine(c.message))
             /\ exitCode' = ErrorExit(c.options)
        ELSE UNCHANGED <<output, exitCode>>

\* getConnectClient() resolves: build the command and send it
ClientResolves ==
  /\ pc = "awaitClient"
  /\ pc' = "awaitSend"
  /\ sent' = Append(sent, ListInstancesCommand(EmptyInput))
  /\ calls' = Append(calls, "send")
  /\ UNCHANGED <<argv, flags, config, response, caught, output, exitCode>>

\* getConnectClient() rejects
ClientRejects ==
  /\ pc = "awaitClient"
  /\ \E e \in Thrown : Handle(e)
  /\ UNCHANGED <<argv, flags, config, calls, sent, response>>

\* connectClient.send(command) resolves
SendResolves ==
  /\ pc = "awaitSend"
  /\ \E r \in Responses :
       /\ response' = Append(response, r)
       /\ output' = output \o Render(r)
  /\ pc' = "done"
  /\ UNCHANGED <<argv, flags, config, calls, sent, caught, exitCode>>

\* connectClient.send(command) rejects
SendRejects ==
  /\ pc = "awaitSend"
  /\ \E e \in Thrown : Handle(e)
  /\ UNCHANGED <<argv, flags, config, calls, sent, response>>

Next ==
  \/ Parse
  \/ Run
  \/ ClientResolves
  \/ ClientRejects
  \/ SendResolves
  \/ SendRejects

Spec == Init /\ [][Next]_vars

-----------------------------------------------------------------------------
(* Properties *)

\* the credential shapes of the command line
GivenProfile(a) == Truthy(a, "profile")

GivenTriple(a) ==
  /\ Truthy(a, "accessKeyId")
  /\ Truthy(a, "secretAccessKey")
  /\ Truthy(a, "secretSessionToken")

Built == DOMAIN config # {}

NetworkFree == calls = <<>> /\ sent = <<>>

\* C1: when profile is empty or absent and at least one of accessKeyId,
\* secretAccessKey, secretSessionToken is empty or absent, the invocation
\* never reaches getInstance, getConnectClient or send, can only end at the
\* parse or the validation gate, and ends with a non-zero exit status.
C1_NoAuthNoNetwork ==
  (~GivenProfile(argv) /\ ~GivenTriple(argv)) =>
     /\ NetworkFree
     /\ pc \in {"parse", "run", "done"}
     /\ (pc = "done" => exitCode # 0)

\* an incomplete triple got past flag parsing and was stopped by validation
C1_Witness ==
  /\ argv = [accessKeyId |-> "A", secretAccessKey |-> "B"]
  /\ pc = "done"
  /\ Built
  /\ exitCode = 1
  /\ output = <<ErrorLine(AuthRequiredMsg)>>
  /\ NetworkFree

\* C2: with accessKeyId "A", secretAccessKey "B", secretSessionToken "C" and
\* no profile, the built config has authMethod "accessKey" and carries the
\* three values, validation passes and the command proceeds to listInstances.
C2_TripleAccepted ==
  (argv = [accessKeyId |-> "A", secretAccessKey |-> "B", secretSessionToken |-> "C"]
     /\ pc \notin {"parse", "run"}) =>
     /\ config.authMethod = "accessKey"
     /\ Truthy(config, "accessKeyId") /\ config.accessKeyId = "A"
     /\ Truthy(config, "secretAccessKey") /\ config.secretAccessKey = "B"
     /\ Truthy(config, "secretSessionToken") /\ config.secretSessionToken = "C"
     /\ Len(calls) >= 1 /\ calls[1] = "getInstance"
     /\ output # <<ErrorLine(AuthRequiredMsg)>>

\* C3: a command line of profile "dev" alone is accepted with authMethod
\* "sso"; whenever the config is built, authMethod is "sso" exactly when the
\* parsed profile is present and non-empty, and "accessKey" otherwise.
C3_AuthMethod ==
  /\ (argv = [profile |-> "dev"] /\ pc \notin {"parse", "run"}) =>
        /\ config.authMethod = "sso"
        /\ config.profile = "dev"
        /\ Len(calls) >= 1 /\ calls[1] = "getInstance"
        /\ output # <<ErrorLine(AuthRequiredMsg)>>
  /\ Built =>
        /\ config.authMethod \in {"sso", "accessKey"}
        /\ config.authMethod = "sso" <=> Truthy(flags, "profile")

C3_Witness ==
  /\ argv = [profile |-> "dev"]
  /\ pc = "awaitClient"
  /\ config.authMethod = "sso"
  /\ calls = <<"getInstance", "getConnectClient">>

\* the flag sets C4 is about
ProfileWithKeyField(a) ==
  /\ Has(a, "profile")
  /\ Has(a, "accessKeyId") \/ Has(a, "secretAccessKey") \/ Has(a, "secretSessionToken")

SecretWithoutKeyId(a) ==
  /\ Has(a, "secretAccessKey") \/ Has(a, "secretSessionToken")
  /\ ~Has(a, "accessKeyId")

\* C4: a flag set with profile together with any access-key field, or with
\* secretAccessKey or secretSessionToken but no accessKeyId, is rejected by
\* flag parsing: the invocation ends there with a non-zero status, no parsed
\* flags, no config, no validation message and no collaborator call.
C4_ParseRejects ==
  ((ProfileWithKeyField(argv) \/ SecretWithoutKeyId(argv)) /\ pc # "parse") =>
     /\ pc = "done"
     /\ exitCode # 0
     /\ DOMAIN flags = {}
     /\ ~Built
     /\ NetworkFree
     /\ output = <<ErrorLine(FlagErrorMsg)>>

\* profile with only the session token: no exclusive pair names it
C4_Witness ==
  /\ argv = [profile |-> "dev", secretSessionToken |-> "C"]
  /\ pc = "done"
  /\ exitCode # 0
  /\ ~Built

\* C5: when the request succeeds with an absent or empty InstanceSummaryList
\* the output is exactly the one "No Amazon Connect instances found." line
\* and the command returns normally with exit status 0.
C5_NoInstances ==
  (pc = "done" /\ Len(response) = 1
     /\ (~Has(response[1], "InstanceSummaryList")
           \/ response[1].InstanceSummaryList = <<>>)) =>
     /\ output = <<Line("stdout", NoInstancesMsg, <<>>)>>
     /\ exitCode = 0
     /\ caught = <<>>

C5_Witness ==
  /\ pc = "done"
  /\ response = <<[metadata |-> "200"]>>
  /\ output = <<Line("stdout", NoInstancesMsg, <<>>)>>
  /\ exitCode = 0

\* C6: when getConnectClient or send throws an Error named
\* UnrecognizedClientException, the command reports the authentication-error
\* message, not the generic one, and terminates with exit status 1.
C6_AuthErrorExit1 ==
  (pc = "done" /\ Len(caught) = 1 /\ caught[1].isError
     /\ caught[1].name = "UnrecognizedClientException") =>
     /\ output = <<Line("stderr", AuthErrorMsg, <<>>)>>
     /\ exitCode = 1

\* C7: when the request throws an Error with another name and message m,
\* the command reports "Error listing Amazon Connect instances: " followed
\* by m and terminates with exit status 1.
C7_GenericErrorExit1 ==
  (pc = "done" /\ Len(caught) = 1 /\ caught[1].isError
     /\ caught[1].name # "UnrecognizedClientException") =>
     /\ output = <<Line("stderr", ListErrorPrefix \o caught[1].message, <<>>)>>
     /\ (caught[1].message = "timeout" =>
           output[1].text = "Error listing Amazon Connect instances: timeout")
     /\ exitCode = 1

\* C8: when the request succeeds with one or more instance summaries, the
\* list printed is the returned InstanceSummaryList itself (same elements,
\* same order) and the "no instances found" line is not written.
C8_PrintedListIsReturnedList ==
  (pc = "done" /\ Len(response) = 1
     /\ Has(response[1], "InstanceSummaryList")
     /\ Len(response[1].InstanceSummaryList) >= 1) =>
     /\ Len(output) = 1
     /\ output[1].chan = "stdout"
     /\ output[1].text = InstancesLabel
     /\ output[1].data = response[1].InstanceSummaryList
     /\ \A i \in 1..Len(output) : output[i].text # NoInstancesMsg

C8_Witness ==
  /\ pc = "done"
  /\ Len(response) = 1
  /\ Has(response[1], "InstanceSummaryList")
  /\ response[1].InstanceSummaryList = <<"i-2", "i-1">>
  /\ output[1].data = <<"i-2", "i-1">>

\* the config built by run() passed the validation of lines 56-61
ValidConfig == Built /\ IsAuthValid(config)

\* C9 as stated: every finished invocation with a valid config sent exactly
\* one list-instances request, with an empty parameter object; no invocation
\* sends more than one.
C9_ExactlyOneRequest ==
  /\ Len(sent) <= 1
  /\ \A i \in 1..Len(sent) :
       sent[i].name = "ListInstancesCommand" /\ sent[i].input = <<>>
  /\ (pc = "done" /\ ValidConfig) => Len(sent) = 1

\* C9 as amended: every invocation with a valid config in which
\* getConnectClient resolves sends exactly one list-instances request, with
\* an empty parameter object, and sends none when getConnectClient rejects;
\* no invocation sends more than one; a request that is awaited is never
\* followed by another send: its failure leads directly to the end of the
\* invocation.
C9_OneRequestOnceClientObtained ==
  /\ [](/\ Len(sent) <= 1
        /\ \A i \in 1..Len(sent) :
             sent[i].name = "ListInstancesCommand" /\ sent[i].input = <<>>
        /\ Len(sent) = 1 => ValidConfig
        /\ (ValidConfig /\ pc = "awaitSend") => Len(sent) = 1
        /\ (ValidConfig /\ pc = "done") =>
              Len(sent) = (IF calls = <<"getInstance", "getConnectClient">>
                           THEN 0 ELSE 1))
  /\ [][pc = "awaitSend" => (pc' = "done" /\ sent' = sent /\ calls' = calls)]_vars

\* a request was sent, failed with an Error, and was not sent again
C9_Witness ==
  /\ pc = "done"
  /\ ValidConfig
  /\ calls = <<"getInstance", "getConnectClient", "send">>
  /\ sent = <<[name |-> "ListInstancesCommand", input |-> <<>>]>>
  /\ Len(caught) = 1
  /\ caught[1].isError
  /\ caught[1].message = "timeout"

\* C10: when the value thrown by getConnectClient or send is not an Error,
\* nothing is reported and the command returns normally with exit status 0;
\* a non-zero exit after the config was accepted happens only when the
\* thrown value is an Error.
C10_NonErrorSwallowed ==
  /\ (pc = "done" /\ Len(caught) = 1 /\ ~caught[1].isError) =>
        /\ output = <<>>
        /\ exitCode = 0
  /\ (pc = "done" /\ exitCode # 0 /\ calls # <<>>) =>
        /\ Len(caught) = 1
        /\ caught[1].isError

C10_Witness ==
  /\ pc = "done"
  /\ Len(caught) = 1
  /\ ~caught[1].isError
  /\ caught[1].name = "UnrecognizedClientException"
  /\ output = <<>>
  /\ exitCode = 0

====
